---- MODULE Spec2Model ----
(***************************************************************************)
(* cryptkeeper: the streaming file codec of cryptkeeper/_engine.py.        *)
(* encrypt_file and decrypt_file are modelled statement by statement over  *)
(* a small file system; the AES-CBC engine of the Crypto library is        *)
(* modelled as an invertible keyed block transform with a chaining state.  *)
(***************************************************************************)
EXTENDS Integers, Sequences, FiniteSets, TLC

VARIABLES fs, pc, key, in_filename, out_filename, chunksize, rseed, rpos,
          iv, cipher, filesize, in_pos, final_block, chunk, chunk_length,
          enc, origsize, err, io, enc_call, tampered, args, in_buf, dec_call,
          kms_pc, master_key_id, data_key, ciphertext_blob, _master_key_id,
          _master_key_alias, _data_key, _ciphertext_blob, response, kms_err,
          kms_calls, env_pc, tree, plaintext_path, input_path, output_path,
          tmpdir, kms_envelope_path, decrypted_archive_path, returned,
          env_err, original

\* The state of a KmsAgent of cryptkeeper/envelope.py.
agent_vars == <<master_key_id, data_key, ciphertext_blob, _master_key_id,
                _master_key_alias, _data_key, _ciphertext_blob, response,
                kms_err, kms_calls>>

\* The state of create_envelope and open_envelope: their arguments and
\* locals, the directories they work in, and what they return.
method_vars == <<env_pc, tree, plaintext_path, input_path, output_path,
                 tmpdir, kms_envelope_path, decrypted_archive_path, returned,
                 env_err, original>>

envelope_vars == <<kms_pc, agent_vars, method_vars>>

vars == <<fs, pc, key, in_filename, out_filename, chunksize, rseed, rpos,
          iv, cipher, filesize, in_pos, final_block, chunk, chunk_length,
          enc, origsize, err, io, enc_call, tampered, args, in_buf, dec_call,
          envelope_vars>>

-----------------------------------------------------------------------------
(* Bounds of the model.                                                    *)

\* Longest plaintext file, in bytes.
MaxLen == 33

\* Contents of the plaintext: byte i of pattern s is (i * s) % 256.
PlainSeeds == {0, 83}

\* Streams the random source can deliver.
RandSeeds == {37, 201}

\* Key lengths a caller passes (15 is not a valid AES key length).
KeyLens == {16, 24, 32, 15}

\* Chunk sizes a caller passes to encrypt_file and to decrypt_file.
EncChunkSizes == {16, 32, 24}
DecChunkSizes == {16, 48}

\* Plaintext lengths of the runs that vary the file names.
NameLens == {0, 13, 32}

\* Damage done to a container between encryption and decryption: the file
\* is cut to CutTo bytes, or loses its last DropLast bytes.
CutTo == {0, 7, 8, 23}
DropLast == {1, 16, 32}

-----------------------------------------------------------------------------
(* Program constants.                                                      *)

_IV_SIZE == 16
_FILE_LENGTH_FIELD_SIZE == 8
BLOCK_SIZE == 16

\* A file name is the sequence of its parts between dots: 'aaa.zip.enc' is
\* <<"aaa", "zip", "enc">> and '...' is four empty parts.  The names of the
\* model have no directory part.
PLAINTEXT == <<"plaintext">>
CIPHERTEXT == <<"ciphertext">>
RECOVERED == <<"recoveredtext">>
DOTS == <<"", "", "", "">>

\* out_filename=None, the default of both operations.
None == <<>>

\* `not name`: None and the empty string are false.
Falsy(name) == name = None \/ name = <<"">>

\* in_filename + '.enc'
WithEncSuffix(name) == Append(name, "enc")

\* os.path.splitext(name)[0]: the name up to its last dot; a name without
\* a dot, or with nothing but dots before its last dot, has no extension.
Splitext(name) ==
    IF Len(name) >= 2 /\ \E i \in 1..(Len(name) - 1) : name[i] # ""
    THEN SubSeq(name, 1, Len(name) - 1)
    ELSE name

\* The names of the source files of the model.
SourceNames == {PLAINTEXT, DOTS}

Paths == SourceNames \cup {WithEncSuffix(x) : x \in SourceNames}
             \cup {CIPHERTEXT, RECOVERED}

-----------------------------------------------------------------------------
(* Byte strings.                                                           *)

Take(s, n) == SubSeq(s, 1, IF n < Len(s) THEN n ELSE Len(s))
Drop(s, n) == SubSeq(s, n + 1, Len(s))

\* A read that returns the rest of the file whatever n is.
FileReadAll(data, pos, n) == SubSeq(data, pos + 1, Len(data))

\* file.read(n) at position pos: at most n bytes, fewer only at end of file.
FileRead(data, pos, n) == Take(Drop(data, pos), n)

\* The buffer of a file object opened for reading, before a read(n) at
\* position pos: when it holds fewer than n bytes beyond pos, the reader
\* fetches what the file holds beyond the bytes it has fetched so far (the
\* files of the model are smaller than the buffer of the reader).
Buffered(buf, pos, n, data) ==
    IF Len(buf) - pos >= n THEN buf ELSE buf \o Drop(data, Len(buf))

\* struct.pack('<Q', n): 8 bytes, least significant first.
RECURSIVE PackLE(_, _)
PackLE(n, k) == IF k = 0 THEN <<>> ELSE <<n % 256>> \o PackLE(n \div 256, k - 1)

StructPack(n) == PackLE(n, _FILE_LENGTH_FIELD_SIZE)

\* struct.unpack('<Q', b)[0] of an 8-byte string.
RECURSIVE UnpackLE(_)
UnpackLE(b) == IF b = <<>> THEN 0 ELSE b[1] + 256 * UnpackLE(Tail(b))

StructUnpackRaises(b) == Len(b) # _FILE_LENGTH_FIELD_SIZE

StructUnpack(b) == UnpackLE(b)

\* Random.new().read(n), the n bytes after position pos of stream seed.
RandomRead(seed, pos, n) == [i \in 1..n |-> ((pos + i) * seed + 101) % 256]

Plain(n, s) == [i \in 1..n |-> (i * s) % 256]

KeyOf(n) == [i \in 1..n |-> (7 * i + n) % 256]

-----------------------------------------------------------------------------
(* The cipher engine (Crypto.Cipher.AES in CBC mode).                      *)

XorBit(a, b, w) == w * ((((a \div w) % 2) + ((b \div w) % 2)) % 2)

XorByte(a, b) == XorBit(a, b, 1) + XorBit(a, b, 2) + XorBit(a, b, 4)
                 + XorBit(a, b, 8) + XorBit(a, b, 16) + XorBit(a, b, 32)
                 + XorBit(a, b, 64) + XorBit(a, b, 128)

XorBlock(a, b) == [i \in 1..BLOCK_SIZE |-> XorByte(a[i], b[i])]

KeyByte(k, i) == k[((i - 1) % Len(k)) + 1]

Rot(i) == (i % BLOCK_SIZE) + 1
RotInv(j) == ((j + BLOCK_SIZE - 2) % BLOCK_SIZE) + 1

\* The block cipher: a permutation of the 16-byte blocks for every key.
BlockEncrypt(k, b) ==
    [i \in 1..BLOCK_SIZE |-> (b[Rot(i)] + KeyByte(k, i) + i) % 256]

BlockDecrypt(k, c) ==
    [j \in 1..BLOCK_SIZE |->
        (c[RotInv(j)] + 512 - KeyByte(k, RotInv(j)) - RotInv(j)) % 256]

\* A constructor that takes a key of any length.
KeyLengthAny(k) == TRUE

\* AES.new(key, ...) accepts keys of 16, 24 or 32 bytes only.
KeyLengthOk(k) == Len(k) \in {16, 24, 32}

\* A constructor that takes an IV of any length.
IvLengthAny(v) == TRUE

\* AES.new(key, AES.MODE_CBC, iv) accepts an IV of one block only.
IvLengthOk(v) == Len(v) = BLOCK_SIZE

\* An engine that drops an incomplete last block instead of rejecting it.
DataAlignedAny(data) == TRUE

\* encrypt() and decrypt() reject data that is not a whole number of blocks.
DataAligned(data) == Len(data) % BLOCK_SIZE = 0

\* encryptor.encrypt(data) from chaining value prev: the ciphertext.
RECURSIVE CbcEncrypt(_, _, _)
CbcEncrypt(k, prev, data) ==
    IF Len(data) < BLOCK_SIZE THEN <<>>
    ELSE LET c == BlockEncrypt(k, XorBlock(Take(data, BLOCK_SIZE), prev))
         IN  c \o CbcEncrypt(k, c, Drop(data, BLOCK_SIZE))

\* decryptor.decrypt(data) from chaining value prev: the plaintext.
RECURSIVE CbcDecrypt(_, _, _)
CbcDecrypt(k, prev, data) ==
    IF Len(data) < BLOCK_SIZE THEN <<>>
    ELSE LET c == Take(data, BLOCK_SIZE)
         IN  XorBlock(BlockDecrypt(k, c), prev)
                 \o CbcDecrypt(k, c, Drop(data, BLOCK_SIZE))

\* An engine that starts every call from the IV again.
NextChainReseeded(prev, ciphertext) == prev

\* The chaining value the engine keeps after processing data: the last
\* ciphertext block it has seen.
NextChain(prev, ciphertext) ==
    IF Len(ciphertext) < BLOCK_SIZE THEN prev
    ELSE SubSeq(ciphertext, Len(ciphertext) - BLOCK_SIZE + 1, Len(ciphertext))

-----------------------------------------------------------------------------
(* The file system.                                                        *)

NoFile == [exists |-> FALSE, data |-> <<>>]
File(d) == [exists |-> TRUE, data |-> d]

\* No KmsAgent has been constructed.
NoAgent ==
    /\ kms_pc = "idle"
    /\ master_key_id = None
    /\ data_key = None
    /\ ciphertext_blob = None
    /\ _master_key_id = None
    /\ _master_key_alias = None
    /\ _data_key = None
    /\ _ciphertext_blob = None
    /\ response = None
    /\ kms_err = "none"
    /\ kms_calls = <<>>

\* Neither create_envelope nor open_envelope has been called.
NoEnvelope ==
    /\ env_pc = "idle"
    /\ tree = <<>>
    /\ plaintext_path = None
    /\ input_path = None
    /\ output_path = None
    /\ tmpdir = None
    /\ kms_envelope_path = None
    /\ decrypted_archive_path = None
    /\ returned = None
    /\ env_err = "none"
    /\ original = <<>>

\* The state before the first call: one source file and nothing else.
Start(names, plaintext) ==
    /\ args = names
    /\ fs = [p \in Paths |-> IF p = names.in_filename THEN File(plaintext)
                              ELSE NoFile]
    /\ pc = "idle"
    /\ key = <<>>
    /\ in_filename = None
    /\ out_filename = None
    /\ chunksize = 0
    /\ rseed = 0
    /\ rpos = 0
    /\ iv = <<>>
    /\ cipher = <<>>
    /\ filesize = 0
    /\ in_pos = 0
    /\ final_block = FALSE
    /\ chunk = <<>>
    /\ chunk_length = 0
    /\ enc = <<>>
    /\ origsize = 0
    /\ err = "none"
    /\ io = {}
    /\ enc_call = [key |-> <<>>, chunksize |-> 0, iv |-> <<>>,
                   result |-> "none", plaintext |-> plaintext]
    /\ tampered = FALSE
    /\ in_buf = <<>>
    /\ dec_call = [container |-> <<>>]

\* The file names of the first half of test_engine_encrypt.
TestNames == [in_filename |-> PLAINTEXT, enc_out |-> CIPHERTEXT,
              dec_out |-> RECOVERED]

Init ==
    /\ \E n \in 0..MaxLen, s \in PlainSeeds : Start(TestNames, Plain(n, s))
    /\ NoAgent
    /\ NoEnvelope

-----------------------------------------------------------------------------
(* Helpers of the two operations.                                          *)

Keys == {KeyOf(n) : n \in KeyLens}

Raise(e, done) ==
    /\ pc' = done
    /\ err' = e

Append8(p, bytes) == [fs EXCEPT ![p] = File(fs[p].data \o bytes)]

\* A loop that an empty read does not end.
IsTerminalChunkUnaligned(n) == (n % 16) # 0

\* Line 86: the chunk that ends the loop.
IsTerminalChunk(n) == n = 0 \/ (n % 16) # 0

\* Line 88: the number of random bytes that pad the terminal chunk.
PaddingLength(n) == 16 - (n % 16)

\* A trailer of the 8-byte length record alone, without the 8 random bytes.
TerminalChunkRecordOnly(c, size, seed, pos) ==
    LET pad == RandomRead(seed, pos, PaddingLength(Len(c)))
        record == StructPack(size)
    IN  c \o pad \o record

\* Lines 88-101: the terminal chunk as it is encrypted; the random bytes are
\* those of stream seed from position pos on.
TerminalChunk(c, size, seed, pos) ==
    LET pad == RandomRead(seed, pos, PaddingLength(Len(c)))
        record == StructPack(size)
        fill == RandomRead(seed, pos + Len(pad), 16 - Len(record))
    IN  c \o pad \o fill \o record

\* A length field that holds the padded length of the plaintext.
LengthFieldPadded(size) == StructPack(16 * ((size + 15) \div 16))

\* Line 62: the length field written in front of the container.
LengthField(size) == StructPack(size)

\* A truncate that never cuts.
FileTruncateNoCut(data, n, fill) ==
    IF n <= Len(data) THEN data
    ELSE data \o [i \in 1..(n - Len(data)) |-> fill]

\* file.truncate(n): cuts the file, or extends it; the content of the
\* extension depends on the platform.
TruncateFill == {0, 255}
FileTruncate(data, n, fill) ==
    IF n <= Len(data) THEN Take(data, n)
    ELSE data \o [i \in 1..(n - Len(data)) |-> fill]

-----------------------------------------------------------------------------
(* encrypt_file(key, in_filename, out_filename, chunksize)                 *)

EncCall ==
    /\ pc = "idle"
    /\ \E k \in Keys, cs \in EncChunkSizes, rs \in RandSeeds :
          /\ key' = k
          /\ chunksize' = cs
          /\ rseed' = rs
    /\ rpos' = 0
    /\ in_filename' = args.in_filename
    /\ out_filename' = IF Falsy(args.enc_out)
                       THEN WithEncSuffix(args.in_filename)
                       ELSE args.enc_out
    /\ in_buf' = <<>>
    /\ io' = {}
    /\ pc' = "e_new"
    /\ UNCHANGED <<fs, iv, cipher, filesize, in_pos, final_block, chunk,
                   chunk_length, enc, origsize, err, enc_call, tampered>>
    /\ UNCHANGED <<args, dec_call, envelope_vars>>

\* A cipher object that keeps the IV of the invocation before, if any.
EncNewKeepingIv ==
    /\ pc = "e_new"
    /\ iv' = IF iv = <<>> THEN RandomRead(rseed, rpos, 16) ELSE iv
    /\ rpos' = rpos + 16
    /\ enc_call' = [key |-> key, chunksize |-> chunksize, iv |-> iv',
                    result |-> IF KeyLengthOk(key) THEN "running"
                               ELSE "error",
                    plaintext |-> enc_call.plaintext]
    /\ IF KeyLengthOk(key)
       THEN /\ cipher' = iv'
            /\ pc' = "e_getsize"
            /\ err' = err
       ELSE /\ Raise("ValueError", "enc_error")
            /\ cipher' = cipher
    /\ UNCHANGED <<fs, key, in_filename, out_filename, chunksize, rseed,
                   filesize, in_pos, final_block, chunk, chunk_length, enc,
                   origsize, io, tampered>>
    /\ UNCHANGED <<args, in_buf, dec_call, envelope_vars>>

\* Lines 52-56: the random source, the IV and the cipher object.
EncNew ==
    /\ pc = "e_new"
    /\ iv' = RandomRead(rseed, rpos, 16)
    /\ rpos' = rpos + 16
    /\ enc_call' = [key |-> key, chunksize |-> chunksize, iv |-> iv',
                    result |-> IF KeyLengthOk(key) THEN "running"
                               ELSE "error",
                    plaintext |-> enc_call.plaintext]
    /\ IF KeyLengthOk(key)
       THEN /\ cipher' = iv'
            /\ pc' = "e_getsize"
            /\ err' = err
       ELSE /\ Raise("ValueError", "enc_error")
            /\ cipher' = cipher
    /\ UNCHANGED <<fs, key, in_filename, out_filename, chunksize, rseed,
                   filesize, in_pos, final_block, chunk, chunk_length, enc,
                   origsize, io, tampered>>
    /\ UNCHANGED <<args, in_buf, dec_call, envelope_vars>>

\* Line 58.
EncGetsize ==
    /\ pc = "e_getsize"
    /\ filesize' = Len(fs[in_filename].data)
    /\ pc' = "e_open_in"
    /\ UNCHANGED <<fs, key, in_filename, out_filename, chunksize, rseed, rpos,
                   iv, cipher, in_pos, final_block, chunk, chunk_length, enc,
                   origsize, err, io, enc_call, tampered>>
    /\ UNCHANGED <<args, in_buf, dec_call, envelope_vars>>

\* Line 60.
EncOpenIn ==
    /\ pc = "e_open_in"
    /\ in_pos' = 0
    /\ io' = io \cup {"open_in"}
    /\ pc' = "e_open_out"
    /\ UNCHANGED <<fs, key, in_filename, out_filename, chunksize, rseed, rpos,
                   iv, cipher, filesize, final_block, chunk, chunk_length,
                   enc, origsize, err, enc_call, tampered>>
    /\ UNCHANGED <<args, in_buf, dec_call, envelope_vars>>

\* Line 61: open(out_filename, 'wb') creates the file, or empties it.
EncOpenOut ==
    /\ pc = "e_open_out"
    /\ fs' = [fs EXCEPT ![out_filename] = File(<<>>)]
    /\ io' = io \cup {"create_out"}
    /\ pc' = "e_write_len"
    /\ UNCHANGED <<key, in_filename, out_filename, chunksize, rseed, rpos,
                   iv, cipher, filesize, in_pos, final_block, chunk,
                   chunk_length, enc, origsize, err, enc_call, tampered>>
    /\ UNCHANGED <<args, in_buf, dec_call, envelope_vars>>

\* Line 62.
EncWriteLen ==
    /\ pc = "e_write_len"
    /\ fs' = Append8(out_filename, LengthField(filesize))
    /\ io' = io \cup {"write_out"}
    /\ pc' = "e_write_iv"
    /\ UNCHANGED <<key, in_filename, out_filename, chunksize, rseed, rpos,
                   iv, cipher, filesize, in_pos, final_block, chunk,
                   chunk_length, enc, origsize, err, enc_call, tampered>>
    /\ UNCHANGED <<args, in_buf, dec_call, envelope_vars>>

\* The IV written through the cipher instead of in clear.
EncWriteIvEncrypted ==
    /\ pc = "e_write_iv"
    /\ fs' = Append8(out_filename, CbcEncrypt(key, cipher, iv))
    /\ final_block' = FALSE
    /\ pc' = "e_read"
    /\ UNCHANGED <<key, in_filename, out_filename, chunksize, rseed, rpos,
                   iv, cipher, filesize, in_pos, chunk, chunk_length, enc,
                   origsize, err, io, enc_call, tampered>>
    /\ UNCHANGED <<args, in_buf, dec_call, envelope_vars>>

\* Lines 63-65.
EncWriteIv ==
    /\ pc = "e_write_iv"
    /\ fs' = Append8(out_filename, iv)
    /\ final_block' = FALSE
    /\ pc' = "e_read"
    /\ UNCHANGED <<key, in_filename, out_filename, chunksize, rseed, rpos,
                   iv, cipher, filesize, in_pos, chunk, chunk_length, enc,
                   origsize, err, io, enc_call, tampered>>
    /\ UNCHANGED <<args, in_buf, dec_call, envelope_vars>>

\* Line 68.
EncRead ==
    /\ pc = "e_read"
    /\ in_buf' = Buffered(in_buf, in_pos, chunksize, fs[in_filename].data)
    /\ chunk' = FileRead(in_buf', in_pos, chunksize)
    /\ in_pos' = in_pos + Len(chunk')
    /\ io' = io \cup {"read_in"}
    /\ pc' = "e_pad"
    /\ UNCHANGED <<fs, key, in_filename, out_filename, chunksize, rseed, rpos,
                   iv, cipher, filesize, final_block, chunk_length, enc,
                   origsize, err, enc_call, tampered>>
    /\ UNCHANGED <<args, dec_call, envelope_vars>>

\* Lines 82-101.
EncPad ==
    /\ pc = "e_pad"
    /\ chunk_length' = Len(chunk)
    /\ IF IsTerminalChunk(Len(chunk))
       THEN /\ final_block' = TRUE
            /\ chunk' = TerminalChunk(chunk, filesize, rseed, rpos)
            /\ rpos' = rpos + (Len(chunk') - Len(chunk))
                            - _FILE_LENGTH_FIELD_SIZE
       ELSE UNCHANGED <<final_block, chunk, rpos>>
    /\ pc' = "e_encrypt"
    /\ UNCHANGED <<fs, key, in_filename, out_filename, chunksize, rseed,
                   iv, cipher, filesize, in_pos, enc, origsize, err, io,
                   enc_call, tampered>>
    /\ UNCHANGED <<args, in_buf, dec_call, envelope_vars>>

\* Line 104.
EncEncrypt ==
    /\ pc = "e_encrypt"
    /\ IF DataAligned(chunk)
       THEN /\ enc' = CbcEncrypt(key, cipher, chunk)
            /\ cipher' = NextChain(cipher, enc')
            /\ pc' = "e_write"
            /\ err' = err
       ELSE /\ Raise("ValueError", "enc_error")
            /\ UNCHANGED <<enc, cipher>>
    /\ enc_call' = IF DataAligned(chunk) THEN enc_call
                   ELSE [enc_call EXCEPT !.result = "error"]
    /\ UNCHANGED <<fs, key, in_filename, out_filename, chunksize, rseed, rpos,
                   iv, filesize, in_pos, final_block, chunk, chunk_length,
                   origsize, io, tampered>>
    /\ UNCHANGED <<args, in_buf, dec_call, envelope_vars>>

\* Lines 105-107.
EncWrite ==
    /\ pc = "e_write"
    /\ fs' = Append8(out_filename, enc)
    /\ pc' = IF final_block THEN "enc_done" ELSE "e_read"
    /\ enc_call' = IF final_block THEN [enc_call EXCEPT !.result = "done"]
                   ELSE enc_call
    /\ UNCHANGED <<key, in_filename, out_filename, chunksize, rseed, rpos,
                   iv, cipher, filesize, in_pos, final_block, chunk,
                   chunk_length, enc, origsize, err, io, tampered>>
    /\ UNCHANGED <<args, in_buf, dec_call, envelope_vars>>

encrypt_file ==
    \/ EncCall \/ EncNew \/ EncGetsize \/ EncOpenIn \/ EncOpenOut
    \/ EncWriteLen \/ EncWriteIv \/ EncRead \/ EncPad \/ EncEncrypt
    \/ EncWrite

\* A second invocation on the same source with the same key and chunk size,
\* without out_filename; its random source is a new one.
EncAgain ==
    /\ pc = "enc_done"
    /\ out_filename = args.enc_out
    /\ \E rs \in RandSeeds : rseed' = rs
    /\ rpos' = 0
    /\ out_filename' = WithEncSuffix(in_filename)
    /\ in_buf' = <<>>
    /\ io' = {}
    /\ pc' = "e_new"
    /\ UNCHANGED <<fs, key, in_filename, chunksize, iv, cipher, filesize,
                   in_pos, final_block, chunk, chunk_length, enc, origsize,
                   err, enc_call, tampered>>
    /\ UNCHANGED <<args, dec_call, envelope_vars>>

-----------------------------------------------------------------------------
(* The container is damaged between the two operations.                    *)

Tamper ==
    /\ pc = "enc_done"
    /\ ~tampered
    /\ \E n \in CutTo \cup {Len(fs[out_filename].data) - d : d \in DropLast} :
          /\ n >= 0
          /\ n < Len(fs[out_filename].data)
          /\ fs' = [fs EXCEPT ![out_filename] = File(Take(@.data, n))]
    /\ tampered' = TRUE
    /\ UNCHANGED <<pc, key, in_filename, out_filename, chunksize, rseed, rpos,
                   iv, cipher, filesize, in_pos, final_block, chunk,
                   chunk_length, enc, origsize, err, io, enc_call>>
    /\ UNCHANGED <<args, in_buf, dec_call, envelope_vars>>

\* The last 16-byte block of the container is overwritten; the length field,
\* the IV and the blocks before the last one stay as they are.
TamperTrailer ==
    /\ pc = "enc_done"
    /\ ~tampered
    /\ Len(fs[out_filename].data) >= 24 + 32
    /\ LET data == fs[out_filename].data
           kept == Len(data) - 16
       IN  fs' = [fs EXCEPT ![out_filename] =
                     File([i \in 1..Len(data) |->
                              IF i <= kept THEN data[i]
                              ELSE (data[i] + 1) % 256])]
    /\ tampered' = TRUE
    /\ UNCHANGED <<pc, key, in_filename, out_filename, chunksize, rseed, rpos,
                   iv, cipher, filesize, in_pos, final_block, chunk,
                   chunk_length, enc, origsize, err, io, enc_call>>
    /\ UNCHANGED <<args, in_buf, dec_call, envelope_vars>>

-----------------------------------------------------------------------------
(* decrypt_file(key, in_filename, out_filename, chunksize)                 *)

\* The keys a caller decrypts with: the key of the encryption, or a key of
\* invalid length.
DecKeys == {enc_call.key, KeyOf(15)}

DecCall ==
    /\ pc \in {"enc_done", "enc_error"}
    /\ \E k \in DecKeys, cs \in DecChunkSizes :
          /\ key' = k
          /\ chunksize' = cs
    /\ in_filename' = out_filename
    /\ out_filename' = IF Falsy(args.dec_out) THEN Splitext(in_filename')
                       ELSE args.dec_out
    /\ in_buf' = <<>>
    /\ chunk' = <<>>
    /\ chunk_length' = 0
    /\ enc' = <<>>
    /\ final_block' = FALSE
    /\ dec_call' = [container |-> fs[in_filename'].data]
    /\ io' = {}
    /\ err' = "none"
    /\ pc' = "d_open_in"
    /\ UNCHANGED <<fs, rseed, rpos, iv, cipher, filesize, in_pos, origsize,
                   enc_call, tampered>>
    /\ UNCHANGED <<args, envelope_vars>>

\* Line 128.
DecOpenIn ==
    /\ pc = "d_open_in"
    /\ IF fs[in_filename].exists
       THEN /\ in_pos' = 0
            /\ io' = io \cup {"open_in"}
            /\ pc' = "d_read_len"
            /\ err' = err
       ELSE /\ Raise("IOError", "dec_error")
            /\ UNCHANGED <<in_pos, io>>
    /\ UNCHANGED <<fs, key, in_filename, out_filename, chunksize, rseed, rpos,
                   iv, cipher, filesize, final_block, chunk, chunk_length,
                   enc, origsize, enc_call, tampered>>
    /\ UNCHANGED <<args, in_buf, dec_call, envelope_vars>>

\* Lines 131-132.
DecReadLen ==
    /\ pc = "d_read_len"
    /\ in_buf' = Buffered(in_buf, in_pos, _FILE_LENGTH_FIELD_SIZE,
                          fs[in_filename].data)
    /\ LET file_length_field ==
               FileRead(in_buf', in_pos, _FILE_LENGTH_FIELD_SIZE)
       IN  /\ in_pos' = in_pos + Len(file_length_field)
           /\ IF StructUnpackRaises(file_length_field)
              THEN /\ Raise("struct.error", "dec_error")
                   /\ origsize' = origsize
              ELSE /\ origsize' = StructUnpack(file_length_field)
                   /\ pc' = "d_read_iv"
                   /\ err' = err
    /\ io' = io \cup {"read_in"}
    /\ UNCHANGED <<fs, key, in_filename, out_filename, chunksize, rseed, rpos,
                   iv, cipher, filesize, final_block, chunk, chunk_length,
                   enc, enc_call, tampered>>
    /\ UNCHANGED <<args, dec_call, envelope_vars>>

\* Line 134.
DecReadIv ==
    /\ pc = "d_read_iv"
    /\ in_buf' = Buffered(in_buf, in_pos, _IV_SIZE, fs[in_filename].data)
    /\ iv' = FileRead(in_buf', in_pos, _IV_SIZE)
    /\ in_pos' = in_pos + Len(iv')
    /\ pc' = "d_new"
    /\ UNCHANGED <<fs, key, in_filename, out_filename, chunksize, rseed, rpos,
                   cipher, filesize, final_block, chunk, chunk_length, enc,
                   origsize, err, io, enc_call, tampered>>
    /\ UNCHANGED <<args, dec_call, envelope_vars>>

\* Line 135.
DecNew ==
    /\ pc = "d_new"
    /\ IF KeyLengthOk(key) /\ IvLengthOk(iv)
       THEN /\ cipher' = iv
            /\ pc' = "d_open_out"
            /\ err' = err
       ELSE /\ Raise("ValueError", "dec_error")
            /\ cipher' = cipher
    /\ UNCHANGED <<fs, key, in_filename, out_filename, chunksize, rseed, rpos,
                   iv, filesize, in_pos, final_block, chunk, chunk_length,
                   enc, origsize, io, enc_call, tampered>>
    /\ UNCHANGED <<args, in_buf, dec_call, envelope_vars>>

\* An output file that is not created when it is opened.
DecOpenOutNoCreate ==
    /\ pc = "d_open_out"
    /\ io' = io \cup {"create_out"}
    /\ pc' = "d_read"
    /\ UNCHANGED <<fs, key, in_filename, out_filename, chunksize, rseed, rpos,
                   iv, cipher, filesize, in_pos, final_block, chunk,
                   chunk_length, enc, origsize, err, enc_call, tampered>>
    /\ UNCHANGED <<args, in_buf, dec_call, envelope_vars>>

\* Line 137.
DecOpenOut ==
    /\ pc = "d_open_out"
    /\ fs' = [fs EXCEPT ![out_filename] = File(<<>>)]
    /\ io' = io \cup {"create_out"}
    /\ pc' = "d_read"
    /\ UNCHANGED <<key, in_filename, out_filename, chunksize, rseed, rpos,
                   iv, cipher, filesize, in_pos, final_block, chunk,
                   chunk_length, enc, origsize, err, enc_call, tampered>>
    /\ UNCHANGED <<args, in_buf, dec_call, envelope_vars>>

\* Lines 139-141.
DecRead ==
    /\ pc = "d_read"
    /\ in_buf' = Buffered(in_buf, in_pos, chunksize, fs[in_filename].data)
    /\ chunk' = FileRead(in_buf', in_pos, chunksize)
    /\ in_pos' = in_pos + Len(chunk')
    /\ pc' = IF Len(chunk') = 0 THEN "d_truncate" ELSE "d_decrypt"
    /\ UNCHANGED <<fs, key, in_filename, out_filename, chunksize, rseed, rpos,
                   iv, cipher, filesize, final_block, chunk_length, enc,
                   origsize, err, io, enc_call, tampered>>
    /\ UNCHANGED <<args, dec_call, envelope_vars>>

\* Line 142.
DecDecrypt ==
    /\ pc = "d_decrypt"
    /\ IF DataAligned(chunk)
       THEN /\ fs' = Append8(out_filename, CbcDecrypt(key, cipher, chunk))
            /\ cipher' = NextChain(cipher, chunk)
            /\ io' = io \cup {"write_out"}
            /\ pc' = "d_read"
            /\ err' = err
       ELSE /\ Raise("ValueError", "dec_error")
            /\ UNCHANGED <<fs, cipher, io>>
    /\ UNCHANGED <<key, in_filename, out_filename, chunksize, rseed, rpos,
                   iv, filesize, in_pos, final_block, chunk, chunk_length,
                   enc, origsize, enc_call, tampered>>
    /\ UNCHANGED <<args, in_buf, dec_call, envelope_vars>>

\* A truncate to the length found in the decrypted trailer (its low byte)
\* instead of the length of the header.
DecTruncateByTrailer ==
    /\ pc = "d_truncate"
    /\ LET data == fs[out_filename].data
           size == IF Len(data) >= 16 THEN data[Len(data) - 7] ELSE origsize
       IN  \E fill \in TruncateFill :
              fs' = [fs EXCEPT ![out_filename] =
                         File(FileTruncate(data, size, fill))]
    /\ pc' = "dec_done"
    /\ UNCHANGED <<key, in_filename, out_filename, chunksize, rseed, rpos,
                   iv, cipher, filesize, in_pos, final_block, chunk,
                   chunk_length, enc, origsize, err, io, enc_call, tampered>>
    /\ UNCHANGED <<args, in_buf, dec_call, envelope_vars>>

\* Line 144.
DecTruncate ==
    /\ pc = "d_truncate"
    /\ \E fill \in TruncateFill :
          fs' = [fs EXCEPT ![out_filename] =
                     File(FileTruncate(@.data, origsize, fill))]
    /\ pc' = "dec_done"
    /\ UNCHANGED <<key, in_filename, out_filename, chunksize, rseed, rpos,
                   iv, cipher, filesize, in_pos, final_block, chunk,
                   chunk_length, enc, origsize, err, io, enc_call, tampered>>
    /\ UNCHANGED <<args, in_buf, dec_call, envelope_vars>>

decrypt_file ==
    \/ DecCall \/ DecOpenIn \/ DecReadLen \/ DecReadIv \/ DecNew
    \/ DecOpenOut \/ DecRead \/ DecDecrypt \/ DecTruncate

Next == encrypt_file \/ Tamper \/ TamperTrailer \/ decrypt_file


Spec == Init /\ [][Next]_vars

\* The calls of the second half of test_engine_encrypt, and the same calls
\* with one or both output names given, on each of the source names.
NameArgs ==
    [in_filename : SourceNames, enc_out : {None, CIPHERTEXT},
     dec_out : {None, RECOVERED}]

InitNames ==
    /\ \E names \in NameArgs, n \in NameLens : Start(names, Plain(n, 83))
    /\ NoAgent
    /\ NoEnvelope

NameSpec == InitNames /\ [][Next]_vars

\* Two invocations of encrypt_file on the same plaintext with the same key.
FreshSpec == Init /\ [][encrypt_file \/ EncAgain]_vars

\* One call of encrypt_file, run to its end: the call is a sequential
\* program, so a statement that can be executed is executed.
EncSpec == Init /\ [][encrypt_file]_vars /\ WF_vars(encrypt_file)

-----------------------------------------------------------------------------
(* KmsAgent(master_key_id, data_key, ciphertext_blob) of envelope.py.      *)

HTTP_OK == 200

\* An argument or attribute is None or Some(v), a sequence that holds v.
Some(v) == <<v>>

TESTING_KMS_MASTER_KEY_ID == "cf04fbf4-8119-4441-953b-1e5115e859dd"
TESTING_KMS_MASTER_KEY_ARN == "arn:aws:kms:key/cf04fbf4-8119-4441-953b-1e5115e859dd"

\* The data key AWS KMS generates for KeySpec AES_256, and its encryption
\* under the master key.
DataKey == KeyOf(32)
Wrap(k) == <<1>> \o [i \in 1..Len(k) |-> (k[i] + 3) % 256]
Unwrap(b) == [i \in 1..(Len(b) - 1) |-> (b[i + 1] + 253) % 256]

\* A data key of a caller that is not of an AES key length; the constructor
\* does not look at the length of data_key.
ShortDataKey == KeyOf(15)

\* The arguments a caller passes: None, an empty value, a value.
MasterKeyIdArgs ==
    {None, Some(""), Some(TESTING_KMS_MASTER_KEY_ID),
     Some(TESTING_KMS_MASTER_KEY_ARN)}
DataKeyArgs == {None, Some(<<>>), Some(DataKey), Some(ShortDataKey)}
CiphertextBlobArgs == {None, Some(<<>>), Some(Wrap(DataKey))}

\* The HTTP status codes of the responses of AWS KMS.
HttpStatuses == {200, 500}

\* The truth value of a string and of a byte string: None and the empty
\* value are false.
TruthyStr(v) == v # None /\ v[1] # ""
TruthyBytes(v) == v # None /\ v[1] # <<>>

\* Lines 60-72: the message of the last check that fails, or None.
ValidationMessage(mki, dk, blob) ==
    IF TruthyBytes(dk) /\ ~TruthyStr(mki)
    THEN Some("If data_key is defined, master_key_id must also be defined.")
    ELSE IF TruthyBytes(blob) /\ (mki # None \/ dk # None)
    THEN Some("If ciphertext_blob is defined, master_key_id and data_key must be undefined.")
    ELSE IF mki = None /\ dk = None /\ blob = None
    THEN Some("At least one of master_key_id, data_key and ciphertext_blob is required.")
    ELSE None

\* A status check that lets every response pass.
HttpAny(status_code) == TRUE

\* Lines 103, 128, 155: status_code != HTTP_OK raises.
HttpOk(status_code) == status_code = HTTP_OK

\* An agent that never records an alias.
AliasNever(supplied, key_id) == None

\* Lines 135-137 and 162-164: the alias after the response.
AliasAfter(supplied, key_id) ==
    IF Some(key_id) # supplied THEN supplied ELSE None

\* Lines 135-138 and 162-165: the master key id after the response.
MasterKeyIdAfter(supplied, key_id) ==
    IF Some(key_id) # supplied THEN Some(key_id) ELSE supplied

\* The client accepts a KeyId that names the master key.
KeyIdKnown(id) ==
    id \in {Some(TESTING_KMS_MASTER_KEY_ID), Some(TESTING_KMS_MASTER_KEY_ARN)}

KmsResponse(status, plaintext, blob) ==
    Some([HTTPStatusCode |-> status, KeyId |-> TESTING_KMS_MASTER_KEY_ARN,
          Plaintext |-> plaintext, CiphertextBlob |-> blob])

KmsRaise(e) ==
    /\ kms_pc' = "error"
    /\ kms_err' = e

engine_vars == <<fs, pc, key, in_filename, out_filename, chunksize, rseed,
                 rpos, iv, cipher, filesize, in_pos, final_block, chunk,
                 chunk_length, enc, origsize, err, io, enc_call, tampered,
                 args, in_buf, dec_call>>

KmsAgentCall ==
    /\ kms_pc = "idle"
    /\ \E mki \in MasterKeyIdArgs, dk \in DataKeyArgs,
          blob \in CiphertextBlobArgs :
          /\ master_key_id' = mki
          /\ data_key' = dk
          /\ ciphertext_blob' = blob
    /\ kms_pc' = "validate"
    /\ UNCHANGED <<_master_key_id, _master_key_alias, _data_key,
                   _ciphertext_blob, response, kms_err, kms_calls>>
    /\ UNCHANGED <<engine_vars, method_vars>>

\* Lines 60-76.
KmsAgentValidate ==
    /\ kms_pc = "validate"
    /\ IF ValidationMessage(master_key_id, data_key, ciphertext_blob) # None
       THEN KmsRaise("KmsHelperInitializationError")
       ELSE /\ kms_pc' = "fields"
            /\ kms_err' = kms_err
    /\ UNCHANGED <<master_key_id, data_key, ciphertext_blob, _master_key_id,
                   _master_key_alias, _data_key, _ciphertext_blob, response,
                   kms_calls>>
    /\ UNCHANGED <<engine_vars, method_vars>>

\* Lines 79-91, 113, 142.
KmsAgentFields ==
    /\ kms_pc = "fields"
    /\ _master_key_id' = master_key_id
    /\ _data_key' = data_key
    /\ _ciphertext_blob' = ciphertext_blob
    /\ _master_key_alias' = None
    /\ kms_pc' = IF TruthyBytes(ciphertext_blob) THEN "decrypt"
                 ELSE IF TruthyBytes(data_key) THEN "encrypt"
                 ELSE "generate_data_key"
    /\ UNCHANGED <<master_key_id, data_key, ciphertext_blob, response,
                   kms_err, kms_calls>>
    /\ UNCHANGED <<engine_vars, method_vars>>

\* Lines 97-99: the client raises on a blob that is not one of the key's.
KmsAgentDecrypt ==
    /\ kms_pc = "decrypt"
    /\ kms_calls' = Append(kms_calls, "decrypt")
    /\ IF ciphertext_blob = Some(Wrap(DataKey))
       THEN /\ \E status \in HttpStatuses :
                  response' = KmsResponse(status, Unwrap(ciphertext_blob[1]),
                                          ciphertext_blob[1])
            /\ kms_pc' = "decrypt_response"
            /\ kms_err' = kms_err
       ELSE /\ KmsRaise("ClientError")
            /\ response' = response
    /\ UNCHANGED <<master_key_id, data_key, ciphertext_blob, _master_key_id,
                   _master_key_alias, _data_key, _ciphertext_blob>>
    /\ UNCHANGED <<engine_vars, method_vars>>

\* Lines 101-111.
KmsAgentDecryptResponse ==
    /\ kms_pc = "decrypt_response"
    /\ IF HttpOk(response[1].HTTPStatusCode)
       THEN /\ _master_key_id' = Some(response[1].KeyId)
            /\ _data_key' = Some(response[1].Plaintext)
            /\ kms_pc' = "ready"
            /\ kms_err' = kms_err
       ELSE /\ KmsRaise("KmsAwsConnectionError")
            /\ UNCHANGED <<_master_key_id, _data_key>>
    /\ UNCHANGED <<master_key_id, data_key, ciphertext_blob,
                   _master_key_alias, _ciphertext_blob, response, kms_calls>>
    /\ UNCHANGED <<engine_vars, method_vars>>

\* Lines 121-124: the client raises on a KeyId it does not know.
KmsAgentEncrypt ==
    /\ kms_pc = "encrypt"
    /\ kms_calls' = Append(kms_calls, "encrypt")
    /\ IF KeyIdKnown(_master_key_id)
       THEN /\ \E status \in HttpStatuses :
                  response' = KmsResponse(status, data_key[1],
                                          Wrap(data_key[1]))
            /\ kms_pc' = "encrypt_response"
            /\ kms_err' = kms_err
       ELSE /\ KmsRaise("ClientError")
            /\ response' = response
    /\ UNCHANGED <<master_key_id, data_key, ciphertext_blob, _master_key_id,
                   _master_key_alias, _data_key, _ciphertext_blob>>
    /\ UNCHANGED <<engine_vars, method_vars>>

\* Lines 126-140.
KmsAgentEncryptResponse ==
    /\ kms_pc = "encrypt_response"
    /\ IF HttpOk(response[1].HTTPStatusCode)
       THEN /\ _master_key_alias' =
                  AliasAfter(_master_key_id, response[1].KeyId)
            /\ _master_key_id' =
                  MasterKeyIdAfter(_master_key_id, response[1].KeyId)
            /\ _ciphertext_blob' = Some(response[1].CiphertextBlob)
            /\ kms_pc' = "ready"
            /\ kms_err' = kms_err
       ELSE /\ KmsRaise("KmsAwsConnectionError")
            /\ UNCHANGED <<_master_key_alias, _master_key_id,
                           _ciphertext_blob>>
    /\ UNCHANGED <<master_key_id, data_key, ciphertext_blob, _data_key,
                   response, kms_calls>>
    /\ UNCHANGED <<engine_vars, method_vars>>

\* Lines 147-150: the client raises on a KeyId it does not know.
KmsAgentGenerateDataKey ==
    /\ kms_pc = "generate_data_key"
    /\ kms_calls' = Append(kms_calls, "generate_data_key")
    /\ IF KeyIdKnown(_master_key_id)
       THEN /\ \E status \in HttpStatuses :
                  response' = KmsResponse(status, DataKey, Wrap(DataKey))
            /\ kms_pc' = "generate_data_key_response"
            /\ kms_err' = kms_err
       ELSE /\ KmsRaise("ClientError")
            /\ response' = response
    /\ UNCHANGED <<master_key_id, data_key, ciphertext_blob, _master_key_id,
                   _master_key_alias, _data_key, _ciphertext_blob>>
    /\ UNCHANGED <<engine_vars, method_vars>>

\* Lines 152-168.
KmsAgentGenerateDataKeyResponse ==
    /\ kms_pc = "generate_data_key_response"
    /\ IF HttpOk(response[1].HTTPStatusCode)
       THEN /\ _master_key_alias' =
                  AliasAfter(_master_key_id, response[1].KeyId)
            /\ _master_key_id' =
                  MasterKeyIdAfter(_master_key_id, response[1].KeyId)
            /\ _ciphertext_blob' = Some(response[1].CiphertextBlob)
            /\ _data_key' = Some(response[1].Plaintext)
            /\ kms_pc' = "ready"
            /\ kms_err' = kms_err
       ELSE /\ KmsRaise("KmsAwsConnectionError")
            /\ UNCHANGED <<_master_key_alias, _master_key_id,
                           _ciphertext_blob, _data_key>>
    /\ UNCHANGED <<master_key_id, data_key, ciphertext_blob, response,
                   kms_calls>>
    /\ UNCHANGED <<engine_vars, method_vars>>

KmsAgent ==
    \/ KmsAgentCall \/ KmsAgentValidate \/ KmsAgentFields
    \/ KmsAgentDecrypt \/ KmsAgentDecryptResponse
    \/ KmsAgentEncrypt \/ KmsAgentEncryptResponse
    \/ KmsAgentGenerateDataKey \/ KmsAgentGenerateDataKeyResponse

InitAgent ==
    /\ Start(TestNames, <<>>)
    /\ NoAgent
    /\ NoEnvelope

AgentSpec == InitAgent /\ [][KmsAgent]_vars

-----------------------------------------------------------------------------
(* Paths, directories and tar archives of create_envelope and               *)
(* open_envelope.  A path is the sequence of its components, each a file    *)
(* name; the tree maps the paths that exist to a directory or a file.       *)

Dir == [kind |-> "dir", data |-> <<>>]
FileNode(d) == [kind |-> "file", data |-> d]

\* os.path.join, os.path.basename, os.path.dirname, '.'.join([name, part]).
Join(path, name) == Append(path, name)
Basename(path) == path[Len(path)]
Dirname(path) == SubSeq(path, 1, Len(path) - 1)
DotJoin(name, part) == Append(name, part)

IsDir(t, path) == path \in DOMAIN t /\ t[path].kind = "dir"

\* path lies below the directory dir.
Under(path, dir) == Len(path) > Len(dir) /\ SubSeq(path, 1, Len(dir)) = dir

\* os.listdir(dir)
Listdir(t, dir) ==
    {p[Len(dir) + 1] : p \in {q \in DOMAIN t : Under(q, dir)}}

\* The tree with node at path, and the tree without path and what is below.
WithNode(t, path, node) ==
    [q \in DOMAIN t \cup {path} |-> IF q = path THEN node ELSE t[q]]
Without(t, path) ==
    [q \in {r \in DOMAIN t : r # path /\ ~Under(r, path)} |-> t[q]]

\* The parts of the names that occur in archives, by the byte that stands
\* for them.
Parts == <<"", "plaintext", "kms-envelope", "tgz", "encrypt",
           "ciphertext-blob">>
PartCode(part) == CHOOSE i \in 1..Len(Parts) : Parts[i] = part

NameBytes(name) ==
    <<Len(name)>> \o [i \in 1..Len(name) |-> PartCode(name[i])]

RECURSIVE NamesBytes(_)
NamesBytes(path) ==
    IF path = <<>> THEN <<>>
    ELSE NameBytes(Head(path)) \o NamesBytes(Tail(path))

\* One member of an archive: its kind, its name in the archive, its size
\* and its content.
MemberBytes(m) ==
    <<IF m.kind = "dir" THEN 0 ELSE 1, Len(m.path)>> \o NamesBytes(m.path)
        \o <<Len(m.data)>> \o m.data

\* archive.add(path, arcname=arcname): path and everything below it, under
\* the name arcname.
Members(t, path, arcname) ==
    {[kind |-> t[q].kind,
      path |-> <<arcname>> \o SubSeq(q, Len(path) + 1, Len(q)),
      data |-> t[q].data] : q \in {r \in DOMAIN t : r = path \/ Under(r, path)}}

\* The bytes of an archive, a directory before what it holds.
RECURSIVE TarBytes(_)
TarBytes(members) ==
    IF members = {} THEN <<>>
    ELSE LET m == CHOOSE x \in members :
                      \A y \in members : Len(x.path) <= Len(y.path)
         IN  MemberBytes(m) \o TarBytes(members \ {m})

RECURSIVE ParsePath(_, _)
ParsePath(b, k) ==
    IF k = 0 THEN [path |-> <<>>, rest |-> b]
    ELSE LET name == [i \in 1..b[1] |-> Parts[b[i + 1]]]
             more == ParsePath(Drop(b, b[1] + 1), k - 1)
         IN  [path |-> <<name>> \o more.path, rest |-> more.rest]

\* The members of the archive with bytes b.
RECURSIVE TarMembers(_)
TarMembers(b) ==
    IF b = <<>> THEN {}
    ELSE LET p == ParsePath(Drop(b, 2), b[2])
             size == p.rest[1]
         IN  {[kind |-> IF b[1] = 0 THEN "dir" ELSE "file",
               path |-> p.path,
               data |-> SubSeq(p.rest, 2, size + 1)]}
                 \cup TarMembers(Drop(p.rest, size + 1))

\* archive.extractall(path=target)
Extractall(t, b, target) ==
    LET members == TarMembers(b)
        At(q) == CHOOSE m \in members : target \o m.path = q
    IN  [q \in DOMAIN t \cup {target \o m.path : m \in members} |->
            IF \E m \in members : target \o m.path = q
            THEN [kind |-> At(q).kind, data |-> At(q).data]
            ELSE t[q]]

-----------------------------------------------------------------------------
(* _engine.encrypt_file and _engine.decrypt_file as create_envelope and     *)
(* open_envelope call them: with the default chunk sizes, which are larger  *)
(* than the files of the model, the first read returns the whole file.      *)

EncryptFileRaises(k) == ~KeyLengthOk(k)

EncryptFileBytes(k, data, seed) ==
    LET v == RandomRead(seed, 0, _IV_SIZE)
        first == IF IsTerminalChunk(Len(data)) THEN <<>>
                 ELSE CbcEncrypt(k, v, data)
        last == CbcEncrypt(k, NextChain(v, first),
                           TerminalChunk(IF IsTerminalChunk(Len(data))
                                         THEN data ELSE <<>>,
                                         Len(data), seed, _IV_SIZE))
    IN  LengthField(Len(data)) \o v \o first \o last

DecryptFileRaises(k, container) ==
    \/ StructUnpackRaises(Take(container, _FILE_LENGTH_FIELD_SIZE))
    \/ ~KeyLengthOk(k)
    \/ ~IvLengthOk(FileRead(container, _FILE_LENGTH_FIELD_SIZE, _IV_SIZE))
    \/ ~DataAligned(Drop(container, _FILE_LENGTH_FIELD_SIZE + _IV_SIZE))

DecryptFileBytes(k, container, fill) ==
    LET size == StructUnpack(Take(container, _FILE_LENGTH_FIELD_SIZE))
        v == FileRead(container, _FILE_LENGTH_FIELD_SIZE, _IV_SIZE)
        data == Drop(container, _FILE_LENGTH_FIELD_SIZE + _IV_SIZE)
    IN  FileTruncate(CbcDecrypt(k, v, data), size, fill)

-----------------------------------------------------------------------------
(* KmsAgent.create_envelope(plaintext_path, output_path) and                *)
(* KmsAgent.open_envelope(input_path, output_path).                         *)

\* The directory of the test, the names tempfile.mkdtemp can return, and
\* the name of the file that holds the ciphertext blob.
TEST_TMPDIR == <<<<"tmpdir">>>>
TempNames == {<<"tmp1">>, <<"tmp2">>}
CIPHERTEXT_BLOB == <<"ciphertext-blob">>

\* Plaintext lengths of the envelope runs.
EnvelopeLens == {0, 13}

\* Lines 244-263 of create_envelope.
input_basename == Basename(plaintext_path)
envelope_name == DotJoin(input_basename, "kms-envelope")
tmp_input_tar_name == DotJoin(input_basename, "tgz")
tmp_encrypted_tar_name == DotJoin(tmp_input_tar_name, "encrypt")
tmp_envelope_path == Join(tmpdir, envelope_name)
tmp_input_tar_path == Join(tmpdir, tmp_input_tar_name)
blob_path == Join(tmp_envelope_path, CIPHERTEXT_BLOB)
encrypted_tar_path == Join(tmp_envelope_path, tmp_encrypted_tar_name)
output_tar_path ==
    IF IsDir(tree, output_path)
    THEN Join(output_path, DotJoin(envelope_name, "tgz"))
    ELSE output_path

EnvRaise(e) ==
    /\ env_pc' = "error"
    /\ env_err' = e

\* Lines 233-234 and 250: the arguments and the temporary directory.
CreateCall ==
    /\ env_pc = "idle"
    /\ kms_pc = "ready"
    /\ \E p \in {q \in DOMAIN tree : tree[q].kind = "file"},
          out \in {None, TEST_TMPDIR}, t \in TempNames :
          /\ <<t>> \notin DOMAIN tree
          /\ plaintext_path' = p
          /\ output_path' = IF out = None THEN Dirname(p) ELSE out
          /\ tmpdir' = <<t>>
          /\ tree' = WithNode(tree, <<t>>, Dir)
    /\ env_pc' = "c_mkdir"
    /\ UNCHANGED <<input_path, kms_envelope_path, decrypted_archive_path,
                   returned, env_err, original>>
    /\ UNCHANGED <<engine_vars, kms_pc, agent_vars>>

\* Line 270.
CreateMkdir ==
    /\ env_pc = "c_mkdir"
    /\ tree' = WithNode(tree, tmp_envelope_path, Dir)
    /\ env_pc' = "c_tar_source"
    /\ UNCHANGED <<plaintext_path, input_path, output_path, tmpdir,
                   kms_envelope_path, decrypted_archive_path, returned,
                   env_err, original>>
    /\ UNCHANGED <<engine_vars, kms_pc, agent_vars>>

\* Lines 273-279.
CreateTarSource ==
    /\ env_pc = "c_tar_source"
    /\ tree' = WithNode(tree, tmp_input_tar_path,
                        FileNode(TarBytes(Members(tree, plaintext_path,
                                                  Basename(plaintext_path)))))
    /\ env_pc' = "c_write_blob"
    /\ UNCHANGED <<plaintext_path, input_path, output_path, tmpdir,
                   kms_envelope_path, decrypted_archive_path, returned,
                   env_err, original>>
    /\ UNCHANGED <<engine_vars, kms_pc, agent_vars>>

\* Lines 282-283.
CreateWriteBlob ==
    /\ env_pc = "c_write_blob"
    /\ tree' = WithNode(tree, blob_path, FileNode(_ciphertext_blob[1]))
    /\ env_pc' = "c_encrypt"
    /\ UNCHANGED <<plaintext_path, input_path, output_path, tmpdir,
                   kms_envelope_path, decrypted_archive_path, returned,
                   env_err, original>>
    /\ UNCHANGED <<engine_vars, kms_pc, agent_vars>>

\* Lines 286-287.
CreateEncrypt ==
    /\ env_pc = "c_encrypt"
    /\ IF EncryptFileRaises(_data_key[1])
       THEN /\ EnvRaise("ValueError")
            /\ tree' = tree
       ELSE /\ \E seed \in RandSeeds :
                  tree' = WithNode(tree, encrypted_tar_path,
                             FileNode(EncryptFileBytes(_data_key[1],
                                          tree[tmp_input_tar_path].data,
                                          seed)))
            /\ env_pc' = "c_tar_envelope"
            /\ env_err' = env_err
    /\ UNCHANGED <<plaintext_path, input_path, output_path, tmpdir,
                   kms_envelope_path, decrypted_archive_path, returned,
                   original>>
    /\ UNCHANGED <<engine_vars, kms_pc, agent_vars>>

\* Lines 290-294.
CreateTarEnvelope ==
    /\ env_pc = "c_tar_envelope"
    /\ tree' = WithNode(tree, output_tar_path,
                        FileNode(TarBytes(Members(tree, tmp_envelope_path,
                                                  Basename(tmp_envelope_path)))))
    /\ returned' = output_tar_path
    /\ env_pc' = "c_cleanup"
    /\ UNCHANGED <<plaintext_path, input_path, output_path, tmpdir,
                   kms_envelope_path, decrypted_archive_path, env_err,
                   original>>
    /\ UNCHANGED <<engine_vars, kms_pc, agent_vars>>

\* Lines 299-306.
CreateCleanup ==
    /\ env_pc = "c_cleanup"
    /\ tree' = Without(tree, tmpdir)
    /\ env_pc' = "created"
    /\ UNCHANGED <<plaintext_path, input_path, output_path, tmpdir,
                   kms_envelope_path, decrypted_archive_path, returned,
                   env_err, original>>
    /\ UNCHANGED <<engine_vars, kms_pc, agent_vars>>

create_envelope ==
    \/ CreateCall \/ CreateMkdir \/ CreateTarSource \/ CreateWriteBlob
    \/ CreateEncrypt \/ CreateTarEnvelope \/ CreateCleanup

\* The caller removes the original before it opens the envelope.
RemoveOriginal ==
    /\ env_pc = "created"
    /\ tree' = Without(tree, plaintext_path)
    /\ env_pc' = "removed"
    /\ UNCHANGED <<plaintext_path, input_path, output_path, tmpdir,
                   kms_envelope_path, decrypted_archive_path, returned,
                   env_err, original>>
    /\ UNCHANGED <<engine_vars, kms_pc, agent_vars>>

\* Lines 322-333: without output_path the name plaintext_path is unbound.
OpenCall ==
    /\ env_pc = "removed"
    /\ input_path' = returned
    /\ \E out \in {None, TEST_TMPDIR}, t \in TempNames :
          /\ <<t>> \notin DOMAIN tree
          /\ output_path' = out
          /\ IF out = None
             THEN /\ EnvRaise("NameError")
                  /\ UNCHANGED <<tmpdir, tree>>
             ELSE /\ tmpdir' = <<t>>
                  /\ tree' = WithNode(tree, <<t>>, Dir)
                  /\ env_pc' = "o_extract"
                  /\ env_err' = env_err
    /\ returned' = None
    /\ UNCHANGED <<plaintext_path, kms_envelope_path,
                   decrypted_archive_path, original>>
    /\ UNCHANGED <<engine_vars, kms_pc, agent_vars>>

\* Lines 341-342.
OpenExtract ==
    /\ env_pc = "o_extract"
    /\ tree' = Extractall(tree, tree[input_path].data, tmpdir)
    /\ env_pc' = "o_read_blob"
    /\ UNCHANGED <<plaintext_path, input_path, output_path, tmpdir,
                   kms_envelope_path, decrypted_archive_path, returned,
                   env_err, original>>
    /\ UNCHANGED <<engine_vars, kms_pc, agent_vars>>

\* Lines 345-353: the blob is read and a KmsAgent is constructed from it.
OpenReadBlob ==
    /\ env_pc = "o_read_blob"
    /\ \E name \in Listdir(tree, tmpdir) :
          /\ kms_envelope_path' = Join(tmpdir, name)
          /\ IF Join(kms_envelope_path', CIPHERTEXT_BLOB) \in DOMAIN tree
             THEN /\ ciphertext_blob' =
                        Some(tree[Join(kms_envelope_path',
                                       CIPHERTEXT_BLOB)].data)
                  /\ master_key_id' = None
                  /\ data_key' = None
                  /\ kms_calls' = <<>>
                  /\ response' = None
                  /\ kms_pc' = "validate"
                  /\ env_pc' = "o_agent"
                  /\ env_err' = env_err
             ELSE /\ EnvRaise("IOError")
                  /\ UNCHANGED <<ciphertext_blob, master_key_id, data_key,
                                 kms_calls, response, kms_pc>>
    /\ UNCHANGED <<_master_key_id, _master_key_alias, _data_key,
                   _ciphertext_blob, kms_err>>
    /\ UNCHANGED <<plaintext_path, input_path, output_path, tmpdir, tree,
                   decrypted_archive_path, returned, original>>
    /\ UNCHANGED engine_vars

\* Line 353: the constructor raises.
OpenAgentRaises ==
    /\ env_pc = "o_agent"
    /\ kms_pc = "error"
    /\ EnvRaise(kms_err)
    /\ UNCHANGED <<tree, plaintext_path, input_path, output_path, tmpdir,
                   kms_envelope_path, decrypted_archive_path, returned,
                   original>>
    /\ UNCHANGED <<engine_vars, kms_pc, agent_vars>>

\* Lines 356-371.
OpenDecrypt ==
    /\ env_pc = "o_agent"
    /\ kms_pc = "ready"
    /\ LET encrypted_archive_list ==
               {f \in Listdir(tree, kms_envelope_path) :
                   f[Len(f)] = "encrypt"}
       IN  IF encrypted_archive_list = {}
           THEN /\ EnvRaise("IndexError")
                /\ UNCHANGED <<tree, decrypted_archive_path>>
           ELSE \E encrypted_archive_filename \in encrypted_archive_list :
                  LET container ==
                          tree[Join(kms_envelope_path,
                                    encrypted_archive_filename)].data
                  IN  /\ decrypted_archive_path' =
                             Join(tmpdir, Splitext(encrypted_archive_filename))
                      /\ IF DecryptFileRaises(_data_key[1], container)
                         THEN /\ EnvRaise("ValueError")
                              /\ tree' = tree
                         ELSE /\ \E fill \in TruncateFill :
                                    tree' = WithNode(tree,
                                               decrypted_archive_path',
                                               FileNode(DecryptFileBytes(
                                                   _data_key[1], container,
                                                   fill)))
                              /\ env_pc' = "o_untar"
                              /\ env_err' = env_err
    /\ UNCHANGED <<plaintext_path, input_path, output_path, tmpdir,
                   kms_envelope_path, returned, original>>
    /\ UNCHANGED <<engine_vars, kms_pc, agent_vars>>

\* Lines 375-376.
OpenUntar ==
    /\ env_pc = "o_untar"
    /\ tree' = Extractall(tree, tree[decrypted_archive_path].data,
                          output_path)
    /\ env_pc' = "o_cleanup"
    /\ UNCHANGED <<plaintext_path, input_path, output_path, tmpdir,
                   kms_envelope_path, decrypted_archive_path, returned,
                   env_err, original>>
    /\ UNCHANGED <<engine_vars, kms_pc, agent_vars>>

\* Lines 381-392.
OpenCleanup ==
    /\ env_pc = "o_cleanup"
    /\ tree' = Without(tree, tmpdir)
    /\ returned' = Join(output_path,
                        Splitext(Basename(decrypted_archive_path)))
    /\ env_pc' = "opened"
    /\ UNCHANGED <<plaintext_path, input_path, output_path, tmpdir,
                   kms_envelope_path, decrypted_archive_path, env_err,
                   original>>
    /\ UNCHANGED <<engine_vars, kms_pc, agent_vars>>

open_envelope ==
    \/ OpenCall \/ OpenExtract \/ OpenReadBlob \/ OpenAgentRaises
    \/ OpenDecrypt \/ OpenUntar \/ OpenCleanup

\* The plaintext file of test_kms_agent_envelope in the directory of the
\* test, under each of the source names.
InitEnvelope ==
    /\ Start(TestNames, <<>>)
    /\ NoAgent
    /\ \E name \in SourceNames, n \in EnvelopeLens :
          /\ tree = WithNode(WithNode(<<>>, TEST_TMPDIR, Dir),
                             Join(TEST_TMPDIR, name),
                             FileNode(Plain(n, 83)))
          /\ original = Plain(n, 83)
    /\ env_pc = "idle"
    /\ plaintext_path = None
    /\ input_path = None
    /\ output_path = None
    /\ tmpdir = None
    /\ kms_envelope_path = None
    /\ decrypted_archive_path = None
    /\ returned = None
    /\ env_err = "none"

EnvelopeNext == KmsAgent \/ create_envelope \/ RemoveOriginal \/ open_envelope

EnvelopeSpec == InitEnvelope /\ [][EnvelopeNext]_vars

-----------------------------------------------------------------------------
(* Vocabulary of the properties.                                           *)

Plaintext == fs[PLAINTEXT].data
Container == fs[CIPHERTEXT].data
Recovered == fs[RECOVERED].data

\* The three parts of a container.
ContainerLength == Take(Container, _FILE_LENGTH_FIELD_SIZE)
ContainerIv == SubSeq(Container, _FILE_LENGTH_FIELD_SIZE + 1,
                      _FILE_LENGTH_FIELD_SIZE + _IV_SIZE)
Ciphertext == Drop(Container, _FILE_LENGTH_FIELD_SIZE + _IV_SIZE)

InEncrypt ==
    pc \in {"e_new", "e_getsize", "e_open_in", "e_open_out", "e_write_len",
            "e_write_iv", "e_read", "e_pad", "e_encrypt", "e_write",
            "enc_done", "enc_error"}

InDecrypt ==
    pc \in {"d_open_in", "d_read_len", "d_read_iv", "d_new", "d_open_out",
            "d_read", "d_decrypt", "d_truncate", "dec_done", "dec_error"}

\* encrypt_file has returned and its container is as it wrote it.
Encrypted == enc_call.result = "done" /\ ~tampered

\* A key of one of the three AES key lengths.
ValidKeyLength(k) == Len(k) = 16 \/ Len(k) = 24 \/ Len(k) = 32

MultipleOf16(n) == n > 0 /\ n % 16 = 0

\* Little-endian reading of a byte string, most significant byte first out.
RECURSIVE LittleEndian(_)
LittleEndian(b) ==
    IF b = <<>> THEN 0
    ELSE 256 * LittleEndian(SubSeq(b, 2, Len(b))) + Head(b)

IsPrefix(a, b) == Len(a) <= Len(b) /\ a = SubSeq(b, 1, Len(a))

\* a and b agree wherever both are defined.
Agree(a, b) ==
    \A i \in 1..(IF Len(a) < Len(b) THEN Len(a) ELSE Len(b)) : a[i] = b[i]

-----------------------------------------------------------------------------
\* C1 (round trip): when encrypt_file has written a container with a valid
\* key and a chunk size that is a positive multiple of 16, decrypt_file with
\* the same key and a chunk size that is a positive multiple of 16 does not
\* fail, and when it has returned the output file holds exactly the bytes of
\* the plaintext.
RoundTrip ==
    (/\ Encrypted
     /\ InDecrypt
     /\ key = enc_call.key
     /\ MultipleOf16(enc_call.chunksize)
     /\ MultipleOf16(chunksize))
    => /\ pc # "dec_error"
       /\ pc = "dec_done" => fs[RECOVERED] = File(Plaintext)

RoundTripWitness ==
    /\ Encrypted
    /\ pc = "dec_done"
    /\ key = enc_call.key
    /\ enc_call.chunksize = 32
    /\ chunksize = 16
    /\ Len(Plaintext) = 33
    /\ Plaintext[33] # 0
    /\ Recovered = Plaintext

\* C2 (size header): the first 8 bytes of the file written by encrypt_file,
\* read as a little-endian integer, are the number of bytes of the input.
SizeHeader ==
    Encrypted =>
        /\ Len(Container) >= _FILE_LENGTH_FIELD_SIZE
        /\ LittleEndian(ContainerLength) = Len(Plaintext)

SizeHeaderWitness ==
    /\ Encrypted
    /\ pc = "enc_done"
    /\ Len(Plaintext) = 13
    /\ ContainerLength = <<13, 0, 0, 0, 0, 0, 0, 0>>

\* C3 (chunk-size independence): when decrypt_file returns after reading a
\* container in chunks of a positive multiple of 16 bytes, its output is the
\* one a single decrypt call over the whole ciphertext gives, cut to the
\* length field, whatever the chunk sizes of the two operations were.
ChunkSizeIndependence ==
    (/\ pc = "dec_done"
     /\ MultipleOf16(chunksize)
     /\ LittleEndian(ContainerLength) <= Len(Ciphertext))
    => Recovered = Take(CbcDecrypt(key, ContainerIv, Ciphertext),
                        LittleEndian(ContainerLength))

ChunkSizeIndependenceWitness ==
    /\ Encrypted
    /\ pc = "dec_done"
    /\ enc_call.chunksize = 16
    /\ chunksize = 48
    /\ Len(Plaintext) = 33
    /\ Len(Ciphertext) = 64
    /\ Recovered = Plaintext

\* C4 (container layout): at every step of encrypt_file with a chunk size
\* that is a positive multiple of 16, and after it, the output file is a
\* prefix of: the 8-byte length field, the 16 bytes of the IV in clear, the
\* CBC ciphertext of the source in source order; the ciphertext only comes
\* after the 24 bytes of header and is a whole number of 16-byte blocks,
\* and covers the whole source once encrypt_file has returned.
ContainerLayout ==
    (/\ enc_call.result \in {"running", "done"}
     /\ ~tampered
     /\ MultipleOf16(enc_call.chunksize)
     /\ fs[CIPHERTEXT].exists)
    => /\ Len(Container) \in {0, 8} \/ Len(Container) >= 24
       /\ Len(Container) >= 8 => ContainerLength = StructPack(Len(Plaintext))
       /\ Len(Container) >= 24 =>
             /\ ContainerIv = enc_call.iv
             /\ Len(Ciphertext) % 16 = 0
             /\ Agree(CbcDecrypt(enc_call.key, enc_call.iv, Ciphertext),
                      Plaintext)
       /\ enc_call.result = "done" => Len(Ciphertext) >= Len(Plaintext)

ContainerLayoutWitness ==
    /\ pc = "e_read"
    /\ MultipleOf16(enc_call.chunksize)
    /\ Len(Plaintext) = 33
    /\ Len(Container) = 24 + 32
    /\ ContainerIv = iv

\* C5 (one trailer block for aligned plaintexts): when the length L of the
\* plaintext is a multiple of 16, the ciphertext is L + 16 bytes long.
AlignedPlaintextAddsOneBlock ==
    (/\ Encrypted
     /\ MultipleOf16(enc_call.chunksize)
     /\ Len(Plaintext) % 16 = 0)
    => Len(Ciphertext) = Len(Plaintext) + 16

OversizedLengthFails ==
    pc = "dec_done" => LittleEndian(ContainerLength) <= Len(Ciphertext)

\* C8 (alignment rejection): decrypt_file with a chunk size that is a
\* positive multiple of 16 never returns normally from a container whose
\* ciphertext is not a whole number of 16-byte blocks.
AlignmentRejection ==
    (/\ InDecrypt
     /\ MultipleOf16(chunksize)
     /\ Len(Container) > 24
     /\ Len(Ciphertext) % 16 # 0)
    => pc \notin {"d_truncate", "dec_done"}

AlignmentRejectionWitness ==
    /\ pc = "dec_error"
    /\ err = "ValueError"
    /\ ValidKeyLength(key)
    /\ MultipleOf16(chunksize)
    /\ Len(Container) > 24 + 16
    /\ Len(Ciphertext) % 16 = 15
    /\ Len(Recovered) > 0

\* C9 (short header): decrypt_file never returns normally from an input
\* file of fewer than 24 bytes.
ShortHeaderRejection ==
    (InDecrypt /\ fs[CIPHERTEXT].exists /\ Len(Container) < 24)
    => pc # "dec_done"

ShortHeaderRejectionWitness ==
    /\ pc = "dec_error"
    /\ err = "ValueError"
    /\ ValidKeyLength(key)
    /\ fs[CIPHERTEXT].exists
    /\ Len(Container) = 23
    /\ Len(iv) = 15

\* C10 as stated (key length validated before any I/O): an operation called
\* with a key that is not 16, 24 or 32 bytes long opens, reads, creates and
\* writes nothing.
KeyValidatedBeforeAnyIO ==
    (pc # "idle" /\ ~ValidKeyLength(key)) => io = {}

\* C10 as amended: with a key that is not 16, 24 or 32 bytes long neither
\* operation returns normally, neither creates or writes its output file,
\* and encrypt_file does not open or read its source either; decrypt_file
\* opens its source and reads the header before it fails.
KeyValidatedBeforeOutput ==
    (pc # "idle" /\ ~ValidKeyLength(key)) =>
        /\ pc \notin {"enc_done", "dec_done"}
        /\ io \cap {"create_out", "write_out"} = {}
        /\ ~fs[out_filename].exists
        /\ InEncrypt => io = {}

KeyValidatedBeforeOutputWitness ==
    /\ pc = "dec_error"
    /\ err = "ValueError"
    /\ ~ValidKeyLength(key)
    /\ Len(iv) = 16
    /\ io = {"open_in", "read_in"}
    /\ ~fs[RECOVERED].exists

\* C11 as stated (the first short read is the terminal chunk): with a chunk
\* size that is a positive multiple of 16, a read that returns fewer bytes
\* than the chunk size is the terminal chunk.
ShortReadIsTerminal ==
    (/\ pc \in {"e_encrypt", "e_write"}
     /\ MultipleOf16(chunksize)
     /\ chunk_length < chunksize)
    => final_block

\* C11 as amended (termination of the encryption loop): with a chunk size
\* that is a positive multiple of 16 every call of encrypt_file ends; the
\* terminal chunk is the first read that returns no byte or a number of
\* bytes that is not a multiple of 16, and it is a short read; a short read
\* of a whole number of blocks is encrypted as an ordinary chunk and has
\* consumed the source, so that the next read is empty; and once the
\* terminal chunk is written the call returns, without a further read or
\* write.
EncryptLoopTerminates ==
    /\ []((pc \in {"e_encrypt", "e_write"} /\ MultipleOf16(chunksize)) =>
            /\ final_block <=> (chunk_length = 0 \/ chunk_length % 16 # 0)
            /\ final_block => chunk_length < chunksize
            /\ (~final_block /\ chunk_length < chunksize) =>
                   in_pos = Len(Plaintext))
    /\ [][(pc = "e_write" /\ final_block) => pc' = "enc_done"]_vars
    /\ [][pc = "enc_done" => UNCHANGED <<fs, in_pos, in_buf, io>>]_vars
    /\ (pc = "e_new" /\ MultipleOf16(chunksize))
          ~> (pc \in {"enc_done", "enc_error"})

EncryptLoopTerminatesWitness ==
    /\ pc = "enc_done"
    /\ chunksize = 32
    /\ Len(Plaintext) = 32
    /\ final_block
    /\ chunk_length = 0
    /\ in_pos = 32
    /\ Len(Ciphertext) = 64

\* C12 (default output names round-trip): when both operations are called
\* without out_filename, encrypt_file on the file X writes X + '.enc', and
\* decrypt_file on X + '.enc' with the same key writes the file X, which
\* then holds the original content.
DefaultNamesRoundTrip ==
    (/\ Falsy(args.enc_out)
     /\ Falsy(args.dec_out)
     /\ Encrypted
     /\ pc = "dec_done"
     /\ key = enc_call.key
     /\ MultipleOf16(enc_call.chunksize)
     /\ MultipleOf16(chunksize))
    => /\ in_filename = WithEncSuffix(args.in_filename)
       /\ out_filename = args.in_filename
       /\ fs[args.in_filename] = File(enc_call.plaintext)

\* C20 (decrypt_file leaves its input unchanged): from the call of
\* decrypt_file on, the file in_filename holds the bytes it held when
\* decrypt_file was called, whatever the names are.
DecryptKeepsInput ==
    InDecrypt => fs[in_filename].data = dec_call.container

\* C17 (bounded buffering): at every step of encrypt_file the chunk read
\* holds at most chunk size bytes, and the padded chunk and its ciphertext
\* at most chunk size + 32 bytes; at every step of decrypt_file the chunk
\* holds at most chunk size bytes; so neither holds a whole plaintext or
\* ciphertext that is longer than one chunk.
BoundedBuffering ==
    /\ InEncrypt =>
          /\ chunk_length <= chunksize
          /\ Len(chunk) <= chunksize + 32
          /\ Len(enc) <= chunksize + 32
          /\ Len(Plaintext) > chunksize => chunk_length < Len(Plaintext)
    /\ InDecrypt =>
          /\ Len(chunk) <= chunksize
          /\ Len(Ciphertext) > chunksize => Len(chunk) < Len(Ciphertext)

BoundedBufferingWitness ==
    /\ pc = "e_write"
    /\ chunksize = 16
    /\ Len(Plaintext) = 33
    /\ in_pos = 33
    /\ final_block
    /\ Len(chunk) = 32
    /\ Len(enc) = 32

\* C18 (the trailer is never consulted): when decrypt_file returns from a
\* container whose length field is covered by the ciphertext blocks before
\* the last one, its output is the decryption of those blocks cut to the
\* length field, whatever the last block holds; so a container made by
\* encrypt_file gives back the plaintext whatever has been written over its
\* last block.
TrailerNeverConsulted ==
    /\ (/\ pc = "dec_done"
        /\ MultipleOf16(chunksize)
        /\ Len(Ciphertext) >= 16
        /\ LittleEndian(ContainerLength) <= Len(Ciphertext) - 16)
       => Recovered =
             Take(CbcDecrypt(key, ContainerIv,
                             Take(Ciphertext, Len(Ciphertext) - 16)),
                  LittleEndian(ContainerLength))
    /\ (/\ pc = "dec_done"
        /\ enc_call.result = "done"
        /\ key = enc_call.key
        /\ MultipleOf16(enc_call.chunksize)
        /\ MultipleOf16(chunksize)
        /\ Len(Container) >= 24
        /\ LittleEndian(ContainerLength) = Len(Plaintext)
        /\ Len(Ciphertext) >= Len(Plaintext) + 16)
       => Recovered = Plaintext

\* The trailer block of a 33-byte plaintext has been overwritten.
TrailerNeverConsultedWitness ==
    /\ pc = "dec_done"
    /\ tampered
    /\ key = enc_call.key
    /\ MultipleOf16(enc_call.chunksize)
    /\ chunksize = 16
    /\ Len(Plaintext) = 33
    /\ Len(Ciphertext) = 64
    /\ Recovered = Plaintext

\* The container of the first invocation and the one of the second.
First == fs[CIPHERTEXT].data
Second == fs[WithEncSuffix(PLAINTEXT)].data
IvOf(container) == SubSeq(container, _FILE_LENGTH_FIELD_SIZE + 1,
                         _FILE_LENGTH_FIELD_SIZE + _IV_SIZE)
CiphertextOf(container) ==
    Drop(container, _FILE_LENGTH_FIELD_SIZE + _IV_SIZE)

\* C19 (IV freshness): the IV at offset 8 of the file an invocation of
\* encrypt_file has written is the first 16 bytes its own random source
\* delivered, and the ciphertext is chained from that IV, whatever an
\* invocation before it drew; two encryptions of the same plaintext with
\* the same key whose random sources deliver different bytes have
\* different IVs, and different IVs give different ciphertexts.
IvFreshness ==
    /\ (pc = "enc_done") =>
          /\ IvOf(fs[out_filename].data) = RandomRead(rseed, 0, _IV_SIZE)
          /\ MultipleOf16(chunksize) =>
                Agree(CbcDecrypt(key, RandomRead(rseed, 0, _IV_SIZE),
                                 CiphertextOf(fs[out_filename].data)),
                      Plaintext)
    /\ (pc = "enc_done" /\ out_filename = WithEncSuffix(PLAINTEXT)) =>
          /\ \A s \in RandSeeds \ {rseed} :
                IvOf(First) = RandomRead(s, 0, _IV_SIZE) =>
                   IvOf(Second) # IvOf(First)
          /\ IvOf(Second) # IvOf(First) =>
                Take(CiphertextOf(Second), 16) # Take(CiphertextOf(First), 16)

IvFreshnessWitness ==
    /\ pc = "enc_done"
    /\ out_filename = WithEncSuffix(PLAINTEXT)
    /\ Len(Plaintext) = 33
    /\ Len(First) = Len(Second)
    /\ Take(First, 8) = Take(Second, 8)
    /\ IvOf(First) # IvOf(Second)
    /\ CiphertextOf(First) # CiphertextOf(Second)

\* An argument is defined when it is not None.
Defined(v) == v # None

\* The constructor has got past its validation, or has raised.
Validated == kms_pc \notin {"idle", "validate"}

\* The KMS operation the constructor has called, if any.
Called(operation) == kms_calls = <<operation>>

\* C13 (argument validation): the constructor raises
\* KmsHelperInitializationError, before any KMS call, exactly when all three
\* arguments are undefined, or ciphertext_blob is defined together with
\* master_key_id or data_key, or data_key is defined without master_key_id.
ValidationRejectsInvalidCombinations ==
    Validated =>
        /\ kms_err = "KmsHelperInitializationError" <=>
              \/ ~Defined(master_key_id) /\ ~Defined(data_key)
                    /\ ~Defined(ciphertext_blob)
              \/ Defined(ciphertext_blob)
                    /\ (Defined(master_key_id) \/ Defined(data_key))
              \/ Defined(data_key) /\ ~Defined(master_key_id)
        /\ kms_err = "KmsHelperInitializationError" => kms_calls = <<>>

\* C14 (alias handling): when the constructor has returned for an agent
\* built from a master_key_id, with or without data_key, and the KeyId of
\* the response differs from the identifier supplied, master_key_alias is
\* the identifier supplied and master_key_id the KeyId of the response;
\* when they are equal, master_key_alias is None and master_key_id is the
\* identifier supplied; for an agent built from a ciphertext_blob alone
\* master_key_alias is None.
AliasHandling ==
    /\ (kms_pc = "ready" /\ Defined(master_key_id)
                         /\ ~TruthyBytes(ciphertext_blob)) =>
          /\ Called("encrypt") \/ Called("generate_data_key")
          /\ Some(response[1].KeyId) # master_key_id =>
                /\ _master_key_alias = master_key_id
                /\ _master_key_id = Some(response[1].KeyId)
          /\ Some(response[1].KeyId) = master_key_id =>
                /\ _master_key_alias = None
                /\ _master_key_id = master_key_id
    /\ (kms_pc = "ready" /\ ~Defined(master_key_id) /\ ~Defined(data_key)
                         /\ Defined(ciphertext_blob)) =>
          /\ Called("decrypt")
          /\ _master_key_alias = None

AliasHandlingWitness ==
    /\ kms_pc = "ready"
    /\ master_key_id = Some(TESTING_KMS_MASTER_KEY_ID)
    /\ data_key = Some(DataKey)
    /\ Called("encrypt")
    /\ _master_key_alias = Some(TESTING_KMS_MASTER_KEY_ID)
    /\ _master_key_id = Some(TESTING_KMS_MASTER_KEY_ARN)

\* C16 (a constructed agent is complete): when the constructor has
\* returned, master_key_id, data_key and ciphertext_blob of the agent are
\* all defined, and every response it got had status 200; after a response
\* with another status the constructor raises KmsAwsConnectionError.
ConstructedAgentIsComplete ==
    /\ kms_pc = "ready" =>
          /\ Defined(_master_key_id)
          /\ Defined(_data_key)
          /\ Defined(_ciphertext_blob)
          /\ response[1].HTTPStatusCode = HTTP_OK
    /\ (kms_pc \in {"ready", "error"} /\ Defined(response)
           /\ response[1].HTTPStatusCode # HTTP_OK) =>
          /\ kms_pc = "error"
          /\ kms_err = "KmsAwsConnectionError"

ConstructedAgentIsCompleteWitness ==
    /\ kms_pc = "ready"
    /\ master_key_id = None
    /\ data_key = None
    /\ Called("decrypt")
    /\ _ciphertext_blob = Some(Wrap(DataKey))
    /\ _data_key = Some(DataKey)
    /\ _master_key_id = Some(TESTING_KMS_MASTER_KEY_ARN)

\* C15 (envelope round trip): create_envelope(P, D) returns
\* D/<basename(P)>.kms-envelope.tgz and that file exists when it has
\* returned; open_envelope of it into D, after the original is removed,
\* returns D/<basename(P)>, and that file then holds the original content.
EnvelopeRoundTrip ==
    /\ env_pc = "created" =>
          /\ returned = Join(output_path,
                             DotJoin(DotJoin(Basename(plaintext_path),
                                             "kms-envelope"), "tgz"))
          /\ returned \in DOMAIN tree
    /\ env_pc = "opened" =>
          /\ returned = Join(output_path, Basename(plaintext_path))
          /\ returned \in DOMAIN tree
          /\ tree[returned] = FileNode(original)

\* C21 (no plaintext silently dropped): for every positive chunk size, a
\* multiple of 16 or not, when encrypt_file has returned, the number of
\* source bytes it has read and encrypted is the number its length field
\* announces, and the ciphertext decrypts to the whole source followed by
\* the padding.
NoPlaintextDropped ==
    (Encrypted /\ pc = "enc_done") =>
        /\ LittleEndian(ContainerLength) = Len(Plaintext)
        /\ in_pos = LittleEndian(ContainerLength)
        /\ IsPrefix(Plaintext,
                    CbcDecrypt(enc_call.key, ContainerIv, Ciphertext))

\* The container decrypt_file was called on, and its three parts.
DecContainer == dec_call.container
DecCiphertext == Drop(DecContainer, _FILE_LENGTH_FIELD_SIZE + _IV_SIZE)
HeaderOf(container) == Take(container, _FILE_LENGTH_FIELD_SIZE + _IV_SIZE)

\* The header is shorter than the length field and the IV together.
ShortHeader(container) ==
    Len(container) < _FILE_LENGTH_FIELD_SIZE + _IV_SIZE

\* The output file has been neither created nor written.
SinkUntouched ==
    /\ fs[out_filename] = NoFile
    /\ io \cap {"create_out", "write_out"} = {}

\* C22 as stated (a failed decryption leaves no partial output): whenever
\* decrypt_file has ended in an error, whatever the cause, the output file
\* has been neither created nor modified.
FailedDecryptLeavesNoOutput ==
    pc = "dec_error" => SinkUntouched

\* C22 (the sink after a failed decryption): when decrypt_file has ended in
\* an error on a missing input, a short header or a key of invalid length,
\* the output file has been neither created nor modified; when it has ended
\* in an error on a ciphertext that is not block-aligned, the output file
\* exists and holds the decryption of the whole chunks before the failing
\* one.
FailedDecryptSink ==
    pc = "dec_error" =>
        IF ShortHeader(DecContainer) \/ ~ValidKeyLength(key)
        THEN SinkUntouched
        ELSE /\ Len(DecCiphertext) % 16 # 0
             /\ fs[out_filename] =
                   File(CbcDecrypt(key,
                            SubSeq(DecContainer,
                                   _FILE_LENGTH_FIELD_SIZE + 1,
                                   _FILE_LENGTH_FIELD_SIZE + _IV_SIZE),
                            Take(DecCiphertext,
                                 chunksize
                                   * (Len(DecCiphertext) \div chunksize))))

FailedDecryptSinkWitness ==
    /\ pc = "dec_error"
    /\ key = enc_call.key
    /\ chunksize = 16
    /\ Len(Plaintext) = 33
    /\ Len(DecCiphertext) = 63
    /\ Len(Recovered) = 48
    /\ IsPrefix(Plaintext, Recovered)

\* create_envelope or open_envelope has finished: it has returned, or an
\* exception has left it.
EnvelopeFinished == env_pc \in {"created", "opened", "error"}

\* The temporary directory of the last call and what it holds.
InTmpdir == {p \in DOMAIN tree : p = tmpdir \/ Under(p, tmpdir)}

\* C23 (temporary working directory cleanup): when create_envelope or
\* open_envelope has finished, by a return or by an exception at any step,
\* the temporary directory it created, and the unencrypted archive inside
\* it, no longer exist.
TemporaryDirectoryRemoved ==
    (EnvelopeFinished /\ tmpdir # None) => InTmpdir = {}

====
